---- MODULE Spec2Model ----
(***************************************************************************)
(* A model of scripts/tools.py: compute_statistics and nice_table over a   *)
(* table of calibration reports.                                           *)
(*                                                                         *)
(* Numbers.  A float of the input table is <<v>> with v an integer, or NaN *)
(* (the empty tuple) when the field is missing.  A computed float is the   *)
(* exact rational <<num, den>> (den > 0) or NaN.  A string produced by     *)
(* f"{s:.3f}" is <<t>>, t the number of thousandths it shows ("1.414" is   *)
(* <<1414>>), or NaN for the string "nan".  An angle is an integer number  *)
(* of micro-degrees; the change of unit of numpy.rad2deg does not change   *)
(* that representation.                                                    *)
(***************************************************************************)
EXTENDS Integers, Sequences, FiniteSets, TLC

VARIABLES info, res, prev, out

vars == <<info, res, prev, out>>

NaN == <<>>

(***************************************************************************)
(* Names of the source.                                                    *)
(***************************************************************************)
fid_names == <<"P1", "P2", "P3", "P4", "P5", "P6", "P7", "P8">>

col_names_by_row == <<"ll", "lr", "ul", "ur", "ml", "mr", "mt", "mb">>

col_names == <<"ll", "ur", "ul", "lr", "ml", "mr", "mt", "mb">>

measures == <<"lr_dist", "tb_dist", "llur_dist", "ullr_dist">>

PairLabel(meas) ==
    CASE meas = "lr_dist" -> "P5 - P6"
      [] meas = "tb_dist" -> "P7 - P8"
      [] meas = "llur_dist" -> "P1 - P2"
      [] meas = "ullr_dist" -> "P3 - P4"

(***************************************************************************)
(* Series arithmetic of the tabular library, NaN skipped.                  *)
(***************************************************************************)
NotNa(f) == f # NaN

DropNa(col) == SelectSeq(col, NotNa)

RECURSIVE SumSeq(_)
SumSeq(s) == IF s = <<>> THEN 0 ELSE s[1][1] + SumSeq(Tail(s))

\* Series.count(): the number of non-missing values.
SeriesCount(col) == Len(DropNa(col))

SeriesMeanCountAll(col) ==
    IF DropNa(col) = <<>> THEN NaN ELSE <<SumSeq(DropNa(col)), Len(col)>>

\* Series.mean(): the sum of the present values over their number.
SeriesMean(col) ==
    LET p == DropNa(col)
    IN  IF p = <<>> THEN NaN ELSE <<SumSeq(p), Len(p)>>

RECURSIVE Insert(_, _)
Insert(v, s) ==
    IF s = <<>> THEN <<v>>
    ELSE IF v <= s[1] THEN <<v>> \o s
    ELSE <<s[1]>> \o Insert(v, Tail(s))

RECURSIVE SortInts(_)
SortInts(s) == IF s = <<>> THEN <<>> ELSE Insert(s[1], SortInts(Tail(s)))

\* The median of a sequence of integers: the middle one, or the mean of the
\* two middle ones.
MedianInts(s) ==
    LET t == SortInts(s)
        n == Len(t)
    IN  IF n = 0 THEN NaN
        ELSE IF n % 2 = 1 THEN <<t[(n + 1) \div 2], 1>>
        ELSE <<t[n \div 2] + t[n \div 2 + 1], 2>>

\* Series.median(), NaN skipped.
SeriesMedian(col) ==
    LET p == DropNa(col)
    IN  MedianInts([i \in 1..Len(p) |-> p[i][1]])

RECURSIVE ISqrtFrom(_, _)
ISqrtFrom(n, k) == IF (k + 1) * (k + 1) > n THEN k ELSE ISqrtFrom(n, k + 1)

RECURSIVE ISqrt(_)
\* floor(sqrt(n)), by halving: ISqrt(n) is 2 * ISqrt(n \div 4) or one more.
ISqrt(n) ==
    IF n < 4 THEN ISqrtFrom(n, 0)
    ELSE LET r == 2 * ISqrt(n \div 4)
         IN  IF (r + 1) * (r + 1) <= n THEN r + 1 ELSE r

RECURSIVE SumSqDiff(_, _)
\* The sum over s of (v - s[i])^2.
SumSqDiff(v, s) ==
    IF s = <<>> THEN 0
    ELSE (v - s[1][1]) * (v - s[1][1]) + SumSqDiff(v, Tail(s))

RECURSIVE PairSq(_)
\* The sum over the pairs i < j of (s[i] - s[j])^2, which is n times the sum
\* of the squared deviations from the mean.
PairSq(s) ==
    IF s = <<>> THEN 0 ELSE SumSqDiff(s[1][1], Tail(s)) + PairSq(Tail(s))

\* Series.std() (ddof = 1) already formatted "{:.3f}": the integer nearest to
\* 1000 * sqrt(PairSq / (n * (n - 1))), NaN below two values.  The square
\* root of a rational with so small a denominator is never half-way between
\* two thousandths.
SeriesStd3(col) ==
    LET p == DropNa(col)
        n == Len(p)
    IN  IF n < 2 THEN NaN
        ELSE <<(ISqrt((4000000 * PairSq(p)) \div (n * (n - 1))) + 1) \div 2>>

(***************************************************************************)
(* f"{s:.3f}" of a float: round to the nearest thousandth, a tie (exactly  *)
(* representable, a multiple of 1/16) to the even one.                     *)
(***************************************************************************)
Round3Abs(num, den) ==
    LET q == num \div den
        r == num % den
        f == (1000 * r) \div den
        rem == (1000 * r) % den
        t == 1000 * q + f
    IN  IF 2 * rem > den \/ (2 * rem = den /\ t % 2 = 1) THEN t + 1 ELSE t

Format3(q) ==
    IF q = NaN THEN NaN
    ELSE IF q[1] >= 0 THEN <<Round3Abs(q[1], q[2])>>
    ELSE <<-Round3Abs(-q[1], q[2])>>

(***************************************************************************)
(* Rational arithmetic on computed floats; NaN propagates.                 *)
(***************************************************************************)
RatLess(a, b) == a[1] * b[2] < b[1] * a[2]

RatNeg(a) == IF a = NaN THEN NaN ELSE <<-a[1], a[2]>>

RatSub(a, b) ==
    IF a = NaN \/ b = NaN THEN NaN ELSE <<a[1] * b[2] - b[1] * a[2], a[2] * b[2]>>

RECURSIVE RatMinFrom(_, _)
RatMinFrom(m, s) ==
    IF s = <<>> THEN m
    ELSE IF s[1] = NaN THEN RatMinFrom(m, Tail(s))
    ELSE IF m = NaN \/ RatLess(s[1], m) THEN RatMinFrom(s[1], Tail(s))
    ELSE RatMinFrom(m, Tail(s))

\* Series.min(): the least of the values that are not NaN, NaN when none is.
SeriesMin(s) == RatMinFrom(NaN, s)

(***************************************************************************)
(* Angles in micro-degrees.  numpy.arctan2 and the sine and cosine inside  *)
(* scipy.stats.circmean are computed by CORDIC in integer arithmetic,      *)
(* accurate to about 1e-5 degree; the cases the floating-point functions   *)
(* get exactly (an axis, a diagonal, the odd symmetry of sine and arctan)  *)
(* are exact here as well.                                                 *)
(***************************************************************************)
Degree == 1000 * 1000

\* atan(2^-i) for i = 0..26, in micro-degrees.
AtanTable ==
    <<45000000, 26565051, 14036243, 7125016, 3576334, 1789911, 895174,
      447614, 223811, 111906, 55953, 27976, 13988, 6994, 3497, 1749, 874,
      437, 219, 109, 55, 27, 14, 7, 3, 2, 1>>

Pow2 == [i \in 0..30 |-> 2^i]

\* Unit length of the vectors summed by circmean, and that length divided
\* by the gain of the 27 CORDIC rotations (1.6467602581).
UnitLen == Pow2[26]

CordicStart == 40752055

\* v / 2^i rounded toward zero.
Shr(v, i) == IF v >= 0 THEN v \div Pow2[i] ELSE -((-v) \div Pow2[i])

RECURSIVE Vectoring(_, _, _, _)
\* Rotate (x, y), x > 0, onto the x axis; the angle turned is atan(y / x).
Vectoring(x, y, z, i) ==
    IF y = 0 \/ i > Len(AtanTable) THEN z
    ELSE IF y > 0
         THEN Vectoring(x + Shr(y, i - 1), y - Shr(x, i - 1), z + AtanTable[i], i + 1)
         ELSE Vectoring(x - Shr(y, i - 1), y + Shr(x, i - 1), z - AtanTable[i], i + 1)

RECURSIVE ScaleUp(_)
\* The power of two that brings a > 0 into [2^27, 2^28).
ScaleUp(a) == IF 2 * a >= Pow2[28] THEN 1 ELSE 2 * ScaleUp(2 * a)

\* atan(b / a) for 0 <= b <= a, a > 0: an angle in [0, 45] degrees.
AtanOctant(b, a) ==
    IF a >= Pow2[28] THEN Vectoring(a \div 4, b \div 4, 0, 1)
    ELSE Vectoring(a * ScaleUp(a), b * ScaleUp(a), 0, 1)

Abs(v) == IF v >= 0 THEN v ELSE -v

\* numpy.arctan2(y, x) of two integers, in (-180, 180] degrees.
ArcTan2Int(y, x) ==
    LET ax == Abs(x)
        ay == Abs(y)
        base == IF ay <= ax THEN AtanOctant(ay, ax) ELSE 90 * Degree - AtanOctant(ax, ay)
        upper == IF x >= 0 THEN base ELSE 180 * Degree - base
    IN  IF x = 0 /\ y = 0 THEN 0
        ELSE IF y >= 0 THEN upper ELSE -upper

RECURSIVE Rotation(_, _, _, _)
\* Rotate (x, y) by z: from (CordicStart, 0) it ends at UnitLen * (cos z, sin z).
Rotation(x, y, z, i) ==
    IF i > Len(AtanTable) THEN <<x, y>>
    ELSE IF z >= 0
         THEN Rotation(x - Shr(y, i - 1), y + Shr(x, i - 1), z - AtanTable[i], i + 1)
         ELSE Rotation(x + Shr(y, i - 1), y - Shr(x, i - 1), z + AtanTable[i], i + 1)

\* <<cos a, sin a>> scaled by UnitLen, for a in (-180, 180] degrees.
CosSin(a) ==
    LET b == Abs(a)
        c == IF b > 90 * Degree THEN 180 * Degree - b ELSE b
        cs == IF c = 0 THEN <<UnitLen, 0>>
              ELSE IF c = 90 * Degree THEN <<0, UnitLen>>
              ELSE Rotation(CordicStart, 0, c, 1)
        co == IF b > 90 * Degree THEN -cs[1] ELSE cs[1]
    IN  <<co, IF a < 0 THEN -cs[2] ELSE cs[2]>>

\* compute_angle: numpy.arctan2(row.y, row.x); NaN when a coordinate is.
ComputeAngle(x, y) ==
    IF x = NaN \/ y = NaN THEN NaN ELSE <<ArcTan2Int(y[1], x[1])>>

RECURSIVE SumCosSin(_)
SumCosSin(angles) ==
    IF angles = <<>> THEN <<0, 0>>
    ELSE LET h == CosSin(angles[1][1])
             t == SumCosSin(Tail(angles))
         IN  <<h[1] + t[1], h[2] + t[2]>>

\* scipy.stats.circmean (low = 0, high = 2 pi, nan_policy = 'propagate'):
\* arctan2 of the summed sines and cosines, taken modulo a full turn.
CircMean(angles) ==
    IF angles = <<>> \/ DropNa(angles) # angles THEN NaN
    ELSE LET cs == SumCosSin(angles)
         IN  <<ArcTan2Int(cs[2], cs[1]) % (360 * Degree)>>

(***************************************************************************)
(* pivot_measures: the eight marker observations of one report.            *)
(***************************************************************************)
PivotMeasures(row) ==
    [k \in 1..Len(fid_names) |->
        [name |-> fid_names[k],
         x |-> row.x[col_names[k]],
         y |-> row.y[col_names[k]],
         angle |-> ComputeAngle(row.x[col_names[k]], row.y[col_names[k]])]]

RECURSIVE ConcatPivots(_)
\* pd.concat([pivot_measures(row) for row in info.itertuples()])
ConcatPivots(tab) ==
    IF tab = <<>> THEN <<>> ELSE PivotMeasures(tab[1]) \o ConcatPivots(Tail(tab))

HasXandY(o) == o.x # NaN /\ o.y # NaN

HasXorY(o) == o.x # NaN \/ o.y # NaN

DropNaAny(p) == SelectSeq(p, HasXandY)

\* .dropna(subset=['x', 'y'], how='all'): drop the rows with neither x nor y.
DropNaAll(p) == SelectSeq(p, HasXorY)

Pivoted(tab) == DropNaAll(ConcatPivots(tab))

\* The rows of one group of pivoted.groupby('name').
Group(p, name) == SelectSeq(p, LAMBDA o : o.name = name)

\* The group keys, in sorted order.
GroupNames(p) == SelectSeq(fid_names, LAMBDA n : \E i \in 1..Len(p) : p[i].name = n)

ColX(g) == [i \in 1..Len(g) |-> g[i].x]

ColY(g) == [i \in 1..Len(g) |-> g[i].y]

ColAngle(g) == [i \in 1..Len(g) |-> g[i].angle]

(***************************************************************************)
(* compute_statistics, the separation part (lines 53-64).                  *)
(***************************************************************************)
DistCol(tab, meas) == [i \in 1..Len(tab) |-> tab[i].dist[meas]]

DistRow(tab, meas) ==
    LET col == DistCol(tab, meas)
    IN  [markers |-> PairLabel(meas),
         mean |-> [mean |-> Format3(SeriesMean(col)), std |-> SeriesStd3(col)],
         median |-> Format3(SeriesMedian(col))]

DistIncludedWheneverRows(tab, meas) == Len(tab) > 0

\* if np.count_nonzero(~info[meas].isna()) > 0
DistIncluded(tab, meas) == SeriesCount(DistCol(tab, meas)) > 0

RECURSIVE DistRowsFrom(_, _)
DistRowsFrom(tab, k) ==
    IF k > Len(measures) THEN <<>>
    ELSE (IF DistIncluded(tab, measures[k]) THEN <<DistRow(tab, measures[k])>> ELSE <<>>)
         \o DistRowsFrom(tab, k + 1)

Dists(tab) == DistRowsFrom(tab, 1)

NrepDistsContributing(tab) ==
    Len(SelectSeq(tab, LAMBDA row : \E k \in 1..Len(measures) : row.dist[measures[k]] # NaN))

\* nrep_dists = len(info)
NrepDists(tab) == Len(tab)

(***************************************************************************)
(* compute_statistics, the marker part (lines 66-90).                      *)
(***************************************************************************)
IntRound(q) == (2 * q[1] + q[2]) \div (2 * q[2])

\* int(): truncation toward zero.
IntTrunc(q) == IF q[1] >= 0 THEN q[1] \div q[2] ELSE -((-q[1]) \div q[2])

\* pivoted.groupby('name'): the groups, in the order of their sorted keys.
Grouped(p) ==
    LET names == GroupNames(p)
    IN  [k \in 1..Len(names) |-> Group(p, names[k])]

\* nrep_fids = int(grouped['x'].count().median())
NrepFids(grouped) ==
    IntTrunc(MedianInts([k \in 1..Len(grouped) |-> SeriesCount(ColX(grouped[k]))]))

\* grouped['x'].mean() and grouped['y'].mean(), one entry per group.
XMeans(grouped) == [k \in 1..Len(grouped) |-> SeriesMean(ColX(grouped[k]))]

YMeans(grouped) == [k \in 1..Len(grouped) |-> SeriesMean(ColY(grouped[k]))]

\* xmean -= xmean.min()
RecenterX(xm) ==
    LET least == SeriesMin(xm)
    IN  [k \in 1..Len(xm) |-> RatSub(xm[k], least)]

RecenterYNoFlip(ym) ==
    LET least == SeriesMin(ym)
    IN  [k \in 1..Len(ym) |-> RatSub(ym[k], least)]

\* ymean = -ymean - (-ymean).min()
RecenterY(ym) ==
    LET neg == [k \in 1..Len(ym) |-> RatNeg(ym[k])]
        least == SeriesMin(neg)
    IN  [k \in 1..Len(ym) |-> RatSub(neg[k], least)]

\* (np.rad2deg(circmean) % 360) formatted "{:.3f}"
AngleCell(g) ==
    LET mean == CircMean(ColAngle(g))
    IN  IF mean = NaN THEN NaN ELSE Format3(<<mean[1] % (360 * Degree), Degree>>)

\* The frame fids built at lines 83-87, one row per group.
Fids(grouped) ==
    LET xmean == RecenterX(XMeans(grouped))
        ymean == RecenterY(YMeans(grouped))
    IN  [k \in 1..Len(grouped) |->
            [name |-> grouped[k][1].name,
             x |-> [mean |-> Format3(xmean[k]), std |-> SeriesStd3(ColX(grouped[k]))],
             y |-> [mean |-> Format3(ymean[k]), std |-> SeriesStd3(ColY(grouped[k]))],
             angle |-> AngleCell(grouped[k])]]

None == [isNone |-> TRUE, rows |-> <<>>]

Some(rows) == [isNone |-> FALSE, rows |-> rows]

\* if len(pivoted) > 0
ObservationsRemain(p) == Len(p) > 0

\* The value returned by compute_statistics(tab); pd.concat raises ValueError
\* ("No objects to concatenate") on a table without rows.
compute_statistics(tab) ==
    LET pivoted == Pivoted(tab)
        grouped == Grouped(pivoted)
    IN  IF Len(tab) = 0 THEN [status |-> "raised", error |-> "ValueError"]
        ELSE IF ObservationsRemain(pivoted)
        THEN [status |-> "returned", dists |-> Dists(tab), fids |-> Some(Fids(grouped)),
              nrep_dists |-> NrepDists(tab), nrep_fids |-> NrepFids(grouped)]
        ELSE [status |-> "returned", dists |-> Dists(tab), fids |-> None,
              nrep_dists |-> NrepDists(tab), nrep_fids |-> 0]

(***************************************************************************)
(* nice_table.  The printed text is a sequence of tokens: a title with its *)
(* report count, a cell of a table, or one character of the table's rules. *)
(* DataFrame.to_markdown belongs to the tabular library; the character it  *)
(* uses to mark the alignment of a column in the rule below the header     *)
(* (':' or the rule's own '=') is left to the library.                     *)
(***************************************************************************)
Ch(c) == [k |-> "ch", v |-> c]

Cell(v) == [k |-> "cell", v |-> v]

\* f"**{text} (n = {n} reports)**" followed by the blank line.
Title(text, n) == <<[k |-> "title", v |-> <<text, n>>], Ch("\n"), Ch("\n")>>

RECURSIVE MarkdownRows(_, _)
MarkdownRows(rows, cols) ==
    IF rows = <<>> THEN <<>>
    ELSE <<Ch("|")>> \o [j \in 1..Len(cols) |-> Cell(rows[1][cols[j]])]
         \o <<Ch("|"), Ch("\n"), Ch("+"), Ch("-"), Ch("+"), Ch("\n")>>
         \o MarkdownRows(Tail(rows), cols)

\* df.to_markdown(tablefmt='grid'): the empty text for a frame without rows.
ToMarkdown(rows, cols, mark) ==
    IF rows = <<>> THEN <<>>
    ELSE <<Ch("+"), Ch("-"), Ch("+"), Ch("\n"), Ch("|")>>
         \o [j \in 1..Len(cols) |-> Cell(cols[j])]
         \o <<Ch("|"), Ch("\n"), Ch("+"), Ch(mark), Ch("="), Ch("+"), Ch("\n")>>
         \o MarkdownRows(rows, cols)

\* outstr.replace(':', '-')
ReplaceColons(text) ==
    [i \in 1..Len(text) |->
        IF text[i].k = "ch" /\ text[i].v = ":" THEN Ch("-") ELSE text[i]]

FidsPrintedAlways(r) == TRUE

\* if fids is not None
FidsPrinted(r) == ~r.fids.isNone

\* outstr as built at lines 103-106.
OutStr(r, mark) ==
    Title("Marker Separation", r.nrep_dists)
    \o ToMarkdown(r.dists, <<"markers", "mean", "median">>, mark)
    \o (IF FidsPrinted(r)
        THEN <<Ch("\n"), Ch("\n")>> \o Title("Marker Location", r.nrep_fids)
             \o ToMarkdown(r.fids.rows, <<"name", "x", "y", "angle">>, mark)
        ELSE <<>>)

\* What nice_table(tab) may print, one text for each alignment mark the
\* library may use; the ValueError of compute_statistics passes through it.
nice_table(tab, marks) ==
    LET r == compute_statistics(tab)
    IN  IF r.status = "raised" THEN {[status |-> "raised", text |-> <<>>]}
        ELSE {[status |-> "printed", text |-> ReplaceColons(OutStr(r, mark))] : mark \in marks}

(***************************************************************************)
(* Input tables.                                                           *)
(***************************************************************************)
MaxReports == 2

Corners == {col_names[k] : k \in 1..Len(col_names)}

Measures == {measures[k] : k \in 1..Len(measures)}

NoObs == <<NaN, NaN>>

\* A report giving the observations obs (corner -> <<x, y>>) and the
\* distances ds (field -> value); every other field is missing.
Report(obs, ds) ==
    [x |-> [c \in Corners |-> IF c \in DOMAIN obs THEN obs[c][1] ELSE NaN],
     y |-> [c \in Corners |-> IF c \in DOMAIN obs THEN obs[c][2] ELSE NaN],
     dist |-> [m \in Measures |-> IF m \in DOMAIN ds THEN ds[m] ELSE NaN]]

Nothing == [c \in {} |-> NaN]

Tables(reports) == UNION {[1..n -> reports] : n \in 0..MaxReports}

\* Marker observations with x, y, both or neither missing on the corners ll
\* and ur; one full observation on each other corner, half of them in a
\* report that also carries a distance.
MarkerReports ==
    {Report([k \in {"ll", "ur"} |-> IF k = "ll" THEN a ELSE b], Nothing) :
        a \in {NoObs, <<<<-1>>, <<2>>>>, <<NaN, <<1>>>>},
        b \in {NoObs, <<<<3>>, NaN>>, <<<<2>>, <<5>>>>}}
    \cup {Report([k \in {c} |-> <<<<2>>, <<4>>>>], Nothing) : c \in {"ul", "lr", "ml"}}
    \cup {Report([k \in {c} |-> <<<<2>>, <<4>>>>], [m \in {"lr_dist"} |-> <<2>>]) :
            c \in {"mr", "mt", "mb"}}

\* Distances present or missing field by field, with or without a marker.
SeparationReports ==
    {Report(Nothing, [m \in {"lr_dist", "tb_dist"} |-> IF m = "lr_dist" THEN a ELSE b]) :
        a \in {NaN, <<2>>, <<4>>, <<7>>}, b \in {NaN, <<3>>}}
    \cup {Report(Nothing, [m \in {"llur_dist"} |-> <<5>>]),
          Report(Nothing, [m \in {"ullr_dist"} |-> <<1>>]),
          Report([k \in {"ll"} |-> <<<<1>>, <<1>>>>],
                 [m \in {"llur_dist", "ullr_dist"} |-> <<6>>]),
          Report([k \in {"ll"} |-> <<<<1>>, <<1>>>>], [m \in Measures |-> <<4>>])}

\* Markers close to the positive x axis, above and below it.
AngleReports ==
    {Report([k \in {"mr", "ml", "mt"} |-> CASE k = "mr" -> a [] k = "ml" -> b [] k = "mt" -> d],
            Nothing) :
        a \in {NoObs, <<<<200000>>, <<-1>>>>, <<<<200000>>, <<1>>>>},
        b \in {NoObs, <<<<57>>, <<1>>>>, <<<<57>>, <<-1>>>>},
        d \in {NoObs, <<<<0>>, <<7>>>>, <<<<-1>>, <<-7>>>>}}

(***************************************************************************)
(* The state: the caller's table, the results of the last two calls of     *)
(* compute_statistics on it, and what nice_table printed.                  *)
(***************************************************************************)
NotCalled == [status |-> "none"]

InitWith(reports) ==
    /\ info \in Tables(reports)
    /\ res = NotCalled
    /\ prev = NotCalled
    /\ out = NotCalled

InfoWithoutLastRow(tab) == IF tab = <<>> THEN tab ELSE SubSeq(tab, 1, Len(tab) - 1)

\* compute_statistics reads info and assigns to none of its cells.
InfoAfterCall(tab) == tab

\* The caller calls compute_statistics on its table, may call it once more,
\* and then prints the table.
ComputeStatistics ==
    /\ prev = NotCalled
    /\ out = NotCalled
    /\ res' = compute_statistics(info)
    /\ prev' = res
    /\ info' = InfoAfterCall(info)
    /\ UNCHANGED out

AlignMarks == {"=", ":"}

NiceTable ==
    /\ res # NotCalled
    /\ out = NotCalled
    /\ out' \in nice_table(info, AlignMarks)
    /\ info' = InfoAfterCall(info)
    /\ UNCHANGED <<res, prev>>

Next == ComputeStatistics \/ NiceTable

Init == InitWith(MarkerReports)

Spec == Init /\ [][Next]_vars

InitSeparation == InitWith(SeparationReports)

SpecSeparation == InitSeparation /\ [][Next]_vars

InitAngle == InitWith(AngleReports)

SpecAngle == InitAngle /\ [][Next]_vars

(***************************************************************************)
(* What the properties below expect, computed from the input table alone.  *)
(***************************************************************************)
Returned == res.status = "returned"

Rows == 1..Len(info)

ExpLabel ==
    [m \in Measures |->
        CASE m = "lr_dist" -> "P5 - P6" [] m = "tb_dist" -> "P7 - P8"
          [] m = "llur_dist" -> "P1 - P2" [] m = "ullr_dist" -> "P3 - P4"]

ExpCorner ==
    [n \in {"P1", "P2", "P3", "P4", "P5", "P6", "P7", "P8"} |->
        CASE n = "P1" -> "ll" [] n = "P2" -> "ur" [] n = "P3" -> "ul" [] n = "P4" -> "lr"
          [] n = "P5" -> "ml" [] n = "P6" -> "mr" [] n = "P7" -> "mt" [] n = "P8" -> "mb"]

\* The reports in which a field is present, and the values there.
DistAt(m) == {j \in Rows : info[j].dist[m] # NaN}

XAt(c) == {j \in Rows : info[j].x[c] # NaN}

YAt(c) == {j \in Rows : info[j].y[c] # NaN}

DistVal(m) == [j \in DistAt(m) |-> info[j].dist[m][1]]

XVal(c) == [j \in XAt(c) |-> info[j].x[c][1]]

YVal(c) == [j \in YAt(c) |-> info[j].y[c][1]]

RECURSIVE ExpSum(_)
ExpSum(f) ==
    IF DOMAIN f = {} THEN 0
    ELSE LET j == CHOOSE i \in DOMAIN f : TRUE
         IN  f[j] + ExpSum([i \in DOMAIN f \ {j} |-> f[i]])

ExpN(f) == Cardinality(DOMAIN f)

ExpSumSq(f) == ExpSum([i \in DOMAIN f |-> f[i] * f[i]])

\* The k-th smallest value of f, counted with multiplicity.
ExpKth(f, k) ==
    CHOOSE v \in {f[i] : i \in DOMAIN f} :
        /\ Cardinality({i \in DOMAIN f : f[i] < v}) < k
        /\ k <= Cardinality({i \in DOMAIN f : f[i] <= v})

\* Twice the median of f.
ExpMedian2(f) ==
    IF ExpN(f) % 2 = 1 THEN 2 * ExpKth(f, (ExpN(f) + 1) \div 2)
    ELSE ExpKth(f, ExpN(f) \div 2) + ExpKth(f, ExpN(f) \div 2 + 1)

\* t thousandths is a decimal nearest to num / den (den > 0).
Nearest3(t, num, den) ==
    /\ 2 * (1000 * num - t * den) <= den
    /\ 2 * (t * den - 1000 * num) <= den

\* t thousandths is the decimal nearest to the sample standard deviation of f.
NearestStd3(t, f) ==
    LET q == 4000000 * (ExpN(f) * ExpSumSq(f) - ExpSum(f) * ExpSum(f))
        d == ExpN(f) * (ExpN(f) - 1)
    IN  /\ t >= 0
        /\ (t = 0 \/ (2 * t - 1) * (2 * t - 1) * d <= q)
        /\ q < (2 * t + 1) * (2 * t + 1) * d

DistRowOf(m) ==
    CHOOSE r \in {res.dists[i] : i \in 1..Len(res.dists)} : r.markers = ExpLabel[m]

\* The markers a report gives a coordinate of.
Observed == {n \in DOMAIN ExpCorner : XAt(ExpCorner[n]) # {} \/ YAt(ExpCorner[n]) # {}}

FidRows == {res.fids.rows[i] : i \in 1..Len(res.fids.rows)}

FidsPresent == Returned /\ ~res.fids.isNone

(***************************************************************************)
(* C1: a marker pair is a row of the separation statistics if and only if  *)
(* at least one report has a value for its distance field, each pair at    *)
(* most once and under its label; with every distance missing there is no  *)
(* row.                                                                    *)
(***************************************************************************)
C1_PairRowIffPresent ==
    Returned =>
        /\ \A m \in Measures :
              (\E i \in 1..Len(res.dists) : res.dists[i].markers = ExpLabel[m])
                  <=> DistAt(m) # {}
        /\ Len(res.dists) = Cardinality({m \in Measures : DistAt(m) # {}})
        /\ ((\A m \in Measures : DistAt(m) = {}) => res.dists = <<>>)

C1_Witness ==
    /\ Returned
    /\ Len(info) = 2
    /\ DistAt("lr_dist") = {2}
    /\ DistAt("llur_dist") = {1}
    /\ DistAt("tb_dist") = {}
    /\ Len(res.dists) = 2

\* C1's special case: a table with reports and no distance at all.
C1_WitnessAllMissing ==
    /\ Returned
    /\ \A m \in Measures : DistAt(m) = {}
    /\ res.dists = <<>>

(***************************************************************************)
(* C2: the row of a pair with a present value holds the mean, the sample   *)
(* standard deviation and the median of the present values only, to three  *)
(* decimals; lr_dist 2.0 and 4.0 give "3.000 ± 1.414" and "3.000".         *)
(***************************************************************************)
C2_StatsOverPresent ==
    Returned =>
        /\ \A m \in Measures :
              DistAt(m) # {} =>
                  LET r == DistRowOf(m)
                      f == DistVal(m)
                  IN  /\ r.mean.mean # NaN
                      /\ Nearest3(r.mean.mean[1], ExpSum(f), ExpN(f))
                      /\ r.median = <<500 * ExpMedian2(f)>>
                      /\ (ExpN(f) < 2 => r.mean.std = NaN)
                      /\ (ExpN(f) >= 2 => r.mean.std # NaN /\ NearestStd3(r.mean.std[1], f))
        /\ (Len(info) = 2 /\ info[1].dist["lr_dist"] = <<2>> /\ info[2].dist["lr_dist"] = <<4>>
              => /\ DistRowOf("lr_dist").mean = [mean |-> <<3000>>, std |-> <<1414>>]
                 /\ DistRowOf("lr_dist").median = <<3000>>)

C2_Witness ==
    /\ Returned
    /\ Len(info) = 2
    /\ info[1].dist["lr_dist"] = <<4>>
    /\ info[2].dist["lr_dist"] = NaN
    /\ DistRowOf("lr_dist").mean.mean = <<4000>>

C2_WitnessExample ==
    /\ Returned
    /\ Len(info) = 2
    /\ info[1].dist["lr_dist"] = <<2>>
    /\ info[2].dist["lr_dist"] = <<4>>
    /\ DistRowOf("lr_dist").mean = [mean |-> <<3000>>, std |-> <<1414>>]

Called == res.status # "none"

AllCoordsMissing ==
    \A j \in Rows : \A c \in Corners : info[j].x[c] = NaN /\ info[j].y[c] = NaN

C4_AbsentWhenAllMissing ==
    Called =>
        /\ Returned
        /\ (AllCoordsMissing => res.fids.isNone /\ res.nrep_fids = 0)
        /\ (~AllCoordsMissing => ~res.fids.isNone)

\* C4 as amended: the same for a table of at least one report; on the table
\* without reports the call raises and returns nothing.
C4_AbsentWhenAllMissingNonEmpty ==
    Called =>
        IF Len(info) = 0 THEN res.status = "raised"
        ELSE /\ Returned
             /\ (AllCoordsMissing => res.fids.isNone /\ res.nrep_fids = 0)
             /\ (~AllCoordsMissing => ~res.fids.isNone)

C4_Witness ==
    /\ Returned
    /\ Len(info) = 2
    /\ AllCoordsMissing
    /\ res.fids.isNone
    /\ res.nrep_fids = 0

(***************************************************************************)
(* C5: marker Pn is a row of the marker statistics if and only if a report *)
(* has an x or a y in the corner fields of Pn (ll P1, ur P2, ul P3, lr P4, *)
(* ml P5, mr P6, mt P7, mb P8), once each, whatever the distance fields.   *)
(***************************************************************************)
C5_MarkerRowIffObserved ==
    Returned =>
        /\ res.fids.isNone <=> Observed = {}
        /\ \A n \in DOMAIN ExpCorner : (\E r \in FidRows : r.name = n) <=> n \in Observed
        /\ Len(res.fids.rows) = Cardinality(Observed)

C5_Witness ==
    /\ FidsPresent
    /\ Len(info) = 2
    /\ XAt("ll") = {} /\ YAt("ll") = {1}
    /\ XAt("ur") = {2} /\ YAt("ur") = {}
    /\ {r.name : r \in FidRows} = {"P1", "P2"}

\* A marker off the ll and ur corners, in a report that carries a distance.
C5_WitnessWithDistance ==
    /\ FidsPresent
    /\ DistAt("lr_dist") # {}
    /\ {r.name : r \in FidRows} = {"P1", "P7"}

(***************************************************************************)
(* C6: whenever the marker statistics are present the smallest recentered  *)
(* x is exactly 0 and every recentered x is >= 0; the marker with the      *)
(* largest original mean y has recentered y 0 and every recentered y is    *)
(* that largest mean minus the marker's own mean, hence >= 0.              *)
(***************************************************************************)
\* The original mean <<sum, count>> of the x (the y) of each observed marker.
ExpXMean == [n \in Observed |-> <<ExpSum(XVal(ExpCorner[n])), ExpN(XVal(ExpCorner[n]))>>]

ExpYMean == [n \in Observed |-> <<ExpSum(YVal(ExpCorner[n])), ExpN(YVal(ExpCorner[n]))>>]

\* The markers whose mean a / b is least (greatest) among those that have one.
ExpLeast(mean) ==
    {n \in DOMAIN mean :
        /\ mean[n][2] > 0
        /\ \A m \in DOMAIN mean :
              mean[m][2] > 0 => mean[n][1] * mean[m][2] <= mean[m][1] * mean[n][2]}

ExpGreatest(mean) ==
    {n \in DOMAIN mean :
        /\ mean[n][2] > 0
        /\ \A m \in DOMAIN mean :
              mean[m][2] > 0 => mean[n][1] * mean[m][2] >= mean[m][1] * mean[n][2]}

C6_RecenteredAlways ==
    FidsPresent =>
        /\ \E r \in FidRows : r.x.mean = <<0>>
        /\ \A r \in FidRows : r.x.mean # NaN /\ r.x.mean[1] >= 0
        /\ \E r \in FidRows : r.y.mean = <<0>>
        /\ \A r \in FidRows : r.y.mean # NaN /\ r.y.mean[1] >= 0
        /\ \A r \in FidRows : r.name \in ExpGreatest(ExpYMean) => r.y.mean = <<0>>

\* C6 as amended: the same over the markers that have an x (a y) in some
\* report; a marker without any has the recentered x (y) "nan".
C6_RecenteredWherePresent ==
    FidsPresent =>
        LET xm == ExpXMean
            ym == ExpYMean
            xleast == ExpLeast(xm)
            ygreatest == ExpGreatest(ym)
        IN  /\ (\E n \in Observed : xm[n][2] > 0) => \E r \in FidRows : r.x.mean = <<0>>
            /\ (\E n \in Observed : ym[n][2] > 0) => \E r \in FidRows : r.y.mean = <<0>>
            /\ \A r \in FidRows :
                  /\ xm[r.name][2] = 0 <=> r.x.mean = NaN
                  /\ ym[r.name][2] = 0 <=> r.y.mean = NaN
                  /\ xm[r.name][2] > 0 =>
                        /\ r.x.mean[1] >= 0
                        /\ (r.name \in xleast => r.x.mean[1] = 0)
                        /\ \A n \in xleast :
                              Nearest3(r.x.mean[1],
                                       xm[r.name][1] * xm[n][2] - xm[n][1] * xm[r.name][2],
                                       xm[r.name][2] * xm[n][2])
                  /\ ym[r.name][2] > 0 =>
                        /\ r.y.mean[1] >= 0
                        /\ (r.name \in ygreatest => r.y.mean[1] = 0)
                        /\ \A n \in ygreatest :
                              Nearest3(r.y.mean[1],
                                       ym[n][1] * ym[r.name][2] - ym[r.name][1] * ym[n][2],
                                       ym[r.name][2] * ym[n][2])

C6_Witness ==
    /\ FidsPresent
    /\ Len(info) = 2
    /\ XAt("ll") = {} /\ YAt("ll") = {1, 2}
    /\ XAt("ur") = {1, 2} /\ YAt("ur") = {1}
    /\ \E r \in FidRows : r.name = "P1" /\ r.x.mean = NaN /\ r.y.mean = <<4000>>
    /\ \E r \in FidRows : r.name = "P2" /\ r.x.mean = <<0>> /\ r.y.mean = <<0>>

(***************************************************************************)
(* C7: when observations remain, nrep_fids is the median over the markers  *)
(* that appear of the per-marker observation counts, rounded to the        *)
(* nearest integer, a median of k + 0.5 not truncated down to k.           *)
(***************************************************************************)
ObsCount == [n \in Observed |-> Cardinality(XAt(ExpCorner[n]) \cup YAt(ExpCorner[n]))]

XCount == [n \in Observed |-> Cardinality(XAt(ExpCorner[n]))]

C8_AngleInHalfOpenRange ==
    FidsPresent =>
        /\ \A r \in FidRows : r.angle # NaN => 0 <= r.angle[1] /\ r.angle[1] < 360000
        /\ \A r \in FidRows :
              (/\ r.name = "P5"
               /\ Len(info) = 2
               /\ info[1].x["ml"] = <<57>> /\ info[1].y["ml"] = <<1>>
               /\ info[2].x["ml"] = <<57>> /\ info[2].y["ml"] = <<-1>>)
                  => r.angle # NaN /\ r.angle[1] % 360000 = 0

TitleAt(i, text) == out.text[i].k = "title" /\ out.text[i].v[1] = text

CellsIn(S) == Cardinality({i \in S : out.text[i].k = "cell"})

PairsPresent == Cardinality({m \in Measures : DistAt(m) # {}})

C10_PrintedTables ==
    out.status = "printed" =>
        /\ out.text[1] = [k |-> "title", v |-> <<"Marker Separation", Len(info)>>]
        /\ (\E i \in 1..Len(out.text) : TitleAt(i, "Marker Location")) <=> Observed # {}
        /\ \A i \in 1..Len(out.text) :
              TitleAt(i, "Marker Location") =>
                  /\ out.text[i].v[2] = ExpMedian2(XCount) \div 2
                  /\ CellsIn(1..i) = IF PairsPresent = 0 THEN 0 ELSE 3 * (PairsPresent + 1)
                  /\ CellsIn(i..Len(out.text)) = 4 * (Cardinality(Observed) + 1)
        /\ \A i \in 1..Len(out.text) : ~(out.text[i].k = "ch" /\ out.text[i].v = ":")

C10_Witness ==
    /\ out.status = "printed"
    /\ PairsPresent = 1
    /\ Cardinality(Observed) = 2
    /\ \E i \in 1..Len(out.text) : TitleAt(i, "Marker Location") /\ out.text[i].v[2] = 1

====
